---- MODULE Spec2Model ----
(***************************************************************************)
(* Model of object_permissions/media/js/users.js: the event wiring of the  *)
(* per-object permissions panel.  The state is the part of the page the    *)
(* script reads and writes: the rows of #op_users, the qTip popovers, the  *)
(* #errors list, the handlers bound by document.ready, and the             *)
(* asynchronous requests whose callbacks have not run yet.                 *)
(*                                                                         *)
(* Strings the script slices or concatenates (row identifiers) are         *)
(* sequences of one-character strings, so that substring(n) and "+" are    *)
(* computed, not assumed.                                                  *)
(***************************************************************************)
EXTENDS Integers, Sequences, FiniteSets, Bags, TLC

VARIABLES
    user_url,   \* global of line 4, set by the embedding page
    obj_id,     \* global of line 5, set by the embedding page
    rows,       \* children of #op_users, in document order
    popovers,   \* the .qtip elements of the document, in creation order
    errors,     \* the <li> children of #errors, in document order
    inflight,   \* requests sent whose callback has not run
    bindings,   \* number of handlers bound per control by document.ready
    navigated,  \* the browser has left the page by a native form submission
    last,       \* record of the last operation (history, never read by the code)
    hist        \* deletes that overtook a form submission (history, see Track)

vars == <<user_url, obj_id, rows, popovers, errors, inflight, bindings,
          navigated, last, hist>>

----------------------------------------------------------------------------
(* Bounds of the model *)

\* requests that may be awaiting their callback at once: a step that would
\* send one more is not followed; a step that sends none (a declined
\* confirm(), a form without handler) is never held back
MaxInflight == 2

----------------------------------------------------------------------------
(* Strings *)

UserPrefix == <<"u", "s", "e", "r", "_">>
GroupPrefix == <<"g", "r", "o", "u", "p", "_">>

\* characters dropped from a .user row's id (line 49)
UserStrip == 5
\* Mutation of GroupStrip: the length of the user handler is kept
GroupStripAsUser == UserStrip

\* characters dropped from a .group row's id (line 66)
GroupStrip == 6

\* String.prototype.substring(n): the characters from index n (0-based) on
Substring(s, n) == SubSeq(s, n + 1, Len(s))

\* "#user_" + id, "#group_" + id: the identifier a selector names
Concat(a, b) == a \o b

----------------------------------------------------------------------------
(* The page *)

Row(kind, n, ver) ==
    [id |-> Concat(IF kind = "user" THEN UserPrefix ELSE GroupPrefix, n),
     kind |-> kind, ver |-> ver]

\* entity ids the server knows
UserIds == {<<"1">>, <<"7">>}
GroupIds == {<<"1", "3">>}

\* the rows the server rendered into #op_users
InitRows == <<Row("user", <<"1">>, 0), Row("group", <<"1", "3">>, 0)>>

\* row fragments the server may render in answer to a form
Fragments == {Row("user", n, 1) : n \in UserIds}

\* identifiers the server may name in a JSON string
RowIds == {Row("user", n, 1).id : n \in UserIds}
              \cup {Row("group", n, 1).id : n \in GroupIds}

\* JSON values a response may carry
JsonString(s) == [t |-> "string", v |-> s]
JsonObject(pairs) == [t |-> "object", v |-> pairs]
JsonNumber == [t |-> "number", v |-> <<>>]
JsonNull == [t |-> "null", v |-> <<>>]

\* field -> message mappings, as the list of their entries in key order
ErrorObjects ==
    {<<<<"user", "required">>, <<"permissions", "invalid">>>>}

\* what the server may answer to a form with Content-Type application/json
JsonPayloads ==
    {JsonString(s) : s \in RowIds} \cup {JsonObject(o) : o \in ErrorObjects}
        \cup {JsonNull}

\* what the server may answer to a delete
DeletePayloads == {JsonString(<<"1">>), JsonNumber, JsonNull}

\* typeof
TypeOf(p) ==
    CASE p.t = "string" -> "string"
      [] p.t = "number" -> "number"
      [] OTHER -> "object"

\* the values of last: the operation, the handlers it ran, the confirm()
\* prompts it showed and the answers they got, the requests it sent, and the
\* Content-Type and type of the answer it handled
NoOp == [op |-> "init", fired |-> 0, prompts |-> 0, ok |-> <<>>, sent |-> 0,
         got |-> <<>>]

----------------------------------------------------------------------------
(* qTip *)

\* Mutation of QtipDestroy: the popovers are left in place
QtipDestroyNone(pops) == pops

\* $('.qtip').qtip('destroy'): every popover is removed from the document
QtipDestroy(pops) == SubSeq(pops, 1, 0)

\* $('.qtip').qtip('hide'): every popover is hidden, none is removed
QtipHide(pops) == [i \in 1..Len(pops) |-> [pops[i] EXCEPT !.visible = FALSE]]

\* $(target).qtip({content: {url: ...}, show: {ready: true}, ...}): the
\* popover is on the page at once; its content (the form) is fetched from url
\* and is not there yet, and api.onShow has not run yet
QtipCreate(pops, kind, url) ==
    Append(pops, [kind |-> kind, url |-> url, visible |-> TRUE,
                  loaded |-> FALSE, shown |-> FALSE, bound |-> 0])

----------------------------------------------------------------------------
(* Selectors on #op_users *)

\* $("#" + id).remove(): the first element of the document with that id
RemoveFirst(rs, id) ==
    IF \E i \in 1..Len(rs) : rs[i].id = id
    THEN LET i == CHOOSE i \in 1..Len(rs) :
                      rs[i].id = id /\ \A j \in 1..(i - 1) : rs[j].id # id
         IN SubSeq(rs, 1, i - 1) \o SubSeq(rs, i + 1, Len(rs))
    ELSE rs

\* Mutation of Matches: the row is never found
MatchesNone(rs, id) == {}

\* $("#op_users #" + id): every descendant of #op_users with that id
Matches(rs, id) == {i \in 1..Len(rs) : rs[i].id = id}

\* Mutation of RemoveAll: nothing is removed
RemoveNone(rs, id) == rs

\* $("#op_users #" + id).remove()
RemoveAll(rs, id) == SelectSeq(rs, LAMBDA r : r.id # id)

----------------------------------------------------------------------------
(* Requests *)

\* $.post(user_url, {user: id, obj: obj_id}, callback, "json") of line 51;
\* id is the variable the callback closes over
UserDeleteRequest(url, id, obj) ==
    [type |-> "delete", kind |-> "user", id |-> id, url |-> url,
     data |-> [user |-> id, obj |-> obj]]

\* $.post(user_url, {group: id, obj: obj_id}, callback, "json") of line 68
GroupDeleteRequest(url, id, obj) ==
    [type |-> "delete", kind |-> "group", id |-> id, url |-> url,
     data |-> [group |-> id, obj |-> obj]]

\* $(this).ajaxSubmit({success: update_user_permissions}) of line 39
\* the request goes to the action of the form, which the template sets
SubmitRequest(p) ==
    [type |-> "submit", kind |-> p.kind, id |-> <<>>, url |-> <<"action">>,
     data |-> [form |-> p.kind]]

\* what one click has done so far: the popovers, the requests awaiting their
\* callback, the confirm() prompts shown and the requests sent by this click
Effect(pops, reqs, prompts, sent) ==
    [pops |-> pops, inflight |-> reqs, prompts |-> prompts, sent |-> sent]

One(r) == SetToBag({r})

----------------------------------------------------------------------------
(* Handlers bound by document.ready *)

\* lines 17-33: click on #add_user
AddUserHandler(pops, url) == QtipCreate(QtipDestroy(pops), "add", url)

\* Mutation of PermissionsHandler: the content is fetched from user_url
PermissionsHandlerUserUrl(pops, row) ==
    QtipCreate(QtipDestroy(pops), "perm", user_url)

\* lines 80-98: click on a .permissions link; this.href is the link's own url
PermissionsHandler(pops, row) ==
    QtipCreate(QtipDestroy(pops), "perm", <<"href">> \o row.id)

\* Mutation of UserDeleteHandler: no request is sent for a row whose delete
\* already awaits its answer
UserDeleteHandlerOnce(st, row, ok, url, obj) ==
    LET id == Substring(row.id, UserStrip)
        req == UserDeleteRequest(url, id, obj)
    IN IF ok /\ ~BagIn(req, st.inflight)
       THEN Effect(QtipDestroy(st.pops), st.inflight (+) One(req),
                   st.prompts + 1, st.sent + 1)
       ELSE Effect(st.pops, st.inflight, st.prompts + 1, st.sent)

\* lines 45-60: click on .delete inside a .user row; ok is confirm()'s answer
UserDeleteHandler(st, row, ok, url, obj) ==
    IF ok
    THEN LET id == Substring(row.id, UserStrip)
             req == UserDeleteRequest(url, id, obj)
         IN Effect(QtipDestroy(st.pops), st.inflight (+) One(req),
                   st.prompts + 1, st.sent + 1)
    ELSE Effect(st.pops, st.inflight, st.prompts + 1, st.sent)

\* Mutation of GroupDeleteHandler: the request is sent whatever the answer
GroupDeleteHandlerUnasked(st, row, ok, url, obj) ==
    LET id == Substring(row.id, GroupStrip)
        req == GroupDeleteRequest(url, id, obj)
    IN Effect(st.pops, st.inflight (+) One(req), st.prompts + 1, st.sent + 1)

\* lines 63-77: click on .delete inside a .group row
GroupDeleteHandler(st, row, ok, url, obj) ==
    IF ok
    THEN LET id == Substring(row.id, GroupStrip)
             req == GroupDeleteRequest(url, id, obj)
         IN Effect(st.pops, st.inflight (+) One(req),
                   st.prompts + 1, st.sent + 1)
    ELSE Effect(st.pops, st.inflight, st.prompts + 1, st.sent)

\* Mutation of UserDeleteCallback: the row is removed whatever the answer
UserDeleteCallbackAlways(rs, id, code) == RemoveFirst(rs, Concat(UserPrefix, id))

\* lines 52-57: the callback of a user delete, code being the parsed JSON
UserDeleteCallback(rs, id, code) ==
    IF TypeOf(code) = "string" THEN RemoveFirst(rs, Concat(UserPrefix, id)) ELSE rs

\* lines 69-74: the callback of a group delete
GroupDeleteCallback(rs, id, code) ==
    IF TypeOf(code) = "string" THEN RemoveFirst(rs, Concat(GroupPrefix, id)) ELSE rs

\* jQuery runs every handler bound for the event, in binding order
RECURSIVE FireAddUser(_, _, _)
FireAddUser(n, pops, url) ==
    IF n = 0 THEN pops ELSE FireAddUser(n - 1, AddUserHandler(pops, url), url)

RECURSIVE FirePermissions(_, _, _)
FirePermissions(n, pops, row) ==
    IF n = 0 THEN pops ELSE FirePermissions(n - 1, PermissionsHandler(pops, row), row)

RECURSIVE FireUserDelete(_, _, _, _, _, _)
FireUserDelete(k, n, st, row, ans, env) ==
    IF k > n THEN st
    ELSE FireUserDelete(k + 1, n,
             UserDeleteHandler(st, row, ans[k], env[1], env[2]), row, ans, env)

RECURSIVE FireGroupDelete(_, _, _, _, _, _)
FireGroupDelete(k, n, st, row, ans, env) ==
    IF k > n THEN st
    ELSE FireGroupDelete(k + 1, n,
             GroupDeleteHandler(st, row, ans[k], env[1], env[2]), row, ans, env)

----------------------------------------------------------------------------
(* Response reconciliation *)

\* Mutation of ReplaceWith: the old row is dropped and the new one put last
ReplaceWithAtEnd(rs, m, html) ==
    Append(SelectSeq(rs, LAMBDA r : r.id # html.id), html)

\* line 122: $row.replaceWith(html), m being the positions $row selects
ReplaceWith(rs, m, html) ==
    [i \in 1..Len(rs) |-> IF i \in m THEN html ELSE rs[i]]

\* Mutation of AppendTo: the new row is put first
PrependTo(rs, html) == <<html>> \o rs

\* line 124: $("#op_users").append(html)
AppendTo(rs, html) == Append(rs, html)

\* Mutation of ForInValues: the keys are listed instead of the messages
ForInKeys(p) ==
    IF p.t = "object" THEN [i \in 1..Len(p.v) |-> p.v[i][1]] ELSE <<>>

\* lines 110-112: the values responseText[key] a for-in loop visits, in order
ForInValues(p) ==
    IF p.t = "object" THEN [i \in 1..Len(p.v) |-> p.v[i][2]] ELSE <<>>

\* lines 101-127: update_user_permissions(responseText, statusText, xhr, $form);
\* ct is xhr.getResponseHeader('Content-Type'), body the response as jQuery
\* hands it over (parsed JSON, or the html of one row)
update_user_permissions(page, ct, body) ==
    IF ct = "application/json"
    THEN IF TypeOf(body) = "string"
         THEN [rows |-> RemoveAll(page.rows, body.v),
               pops |-> QtipHide(page.pops),
               errors |-> page.errors]
         ELSE [rows |-> page.rows,
               pops |-> page.pops,
               errors |-> page.errors \o ForInValues(body)]
    ELSE LET id == body.id
             row == Matches(page.rows, id)
         IN [rows |-> IF Cardinality(row) = 1
                      THEN ReplaceWith(page.rows, row, body)
                      ELSE AppendTo(page.rows, body),
             pops |-> QtipHide(page.pops),
             errors |-> page.errors]

\* the responses a server may give to a form submission
FormResponses ==
    {<<"application/json", b>> : b \in JsonPayloads}
        \cup {<<"text/html", f>> : f \in Fragments}

\* what last records of an answer
Got(ct, body) ==
    <<ct, IF ct = "application/json" THEN TypeOf(body) ELSE "html">>

----------------------------------------------------------------------------
(* The state machine *)

Init ==
    /\ user_url = <<"/", "u", "/">>
    /\ obj_id = <<"9">>
    /\ rows = InitRows
    /\ popovers = <<>>
    /\ errors = <<>>
    /\ inflight = EmptyBag
    /\ bindings = [addUser |-> 1, userDelete |-> 1, groupDelete |-> 1,
                   permissions |-> 1]
    /\ navigated = FALSE
    /\ last = NoOp
    /\ hist = [armed |-> {}, gone |-> {}]

\* Mutation of Unbind: nothing is released
UnbindNothing(b) == b

\* lines 10-14: the handlers of earlier runs are released
Unbind(b) == [addUser |-> 0, userDelete |-> 0, groupDelete |-> 0, permissions |-> 0]

\* lines 17, 45, 63, 80: one handler is bound per control
Bind(b) == [addUser |-> b.addUser + 1, userDelete |-> b.userDelete + 1,
            groupDelete |-> b.groupDelete + 1, permissions |-> b.permissions + 1]

\* lines 7-99: document.ready runs again (the panel is reloaded in a tab)
Initialize ==
    /\ bindings' = Bind(Unbind(bindings))
    /\ last' = [NoOp EXCEPT !.op = "ready"]
    /\ UNCHANGED <<user_url, obj_id, navigated, rows, popovers, errors, inflight>>

\* a click on #add_user
ClickAddUser ==
    /\ bindings.addUser > 0
    /\ popovers' = FireAddUser(bindings.addUser, popovers, user_url)
    /\ last' = [NoOp EXCEPT !.op = "addUser", !.fired = bindings.addUser]
    /\ UNCHANGED <<user_url, obj_id, navigated, rows, errors, inflight, bindings>>

\* a click on the .permissions link of row i
ClickPermissions(i) ==
    /\ bindings.permissions > 0
    /\ popovers' = FirePermissions(bindings.permissions, popovers, rows[i])
    /\ last' = [NoOp EXCEPT !.op = "permissions", !.fired = bindings.permissions]
    /\ UNCHANGED <<user_url, obj_id, navigated, rows, errors, inflight, bindings>>

\* a click on the .delete control of the .user row i
ClickUserDelete(i) ==
    /\ rows[i].kind = "user"
    /\ bindings.userDelete > 0
    /\ \E ans \in [1..bindings.userDelete -> BOOLEAN] :
         LET st == FireUserDelete(1, bindings.userDelete,
                       Effect(popovers, inflight, 0, 0), rows[i], ans,
                       <<user_url, obj_id>>)
         IN /\ BagCardinality(st.inflight) <= MaxInflight
            /\ popovers' = st.pops
            /\ inflight' = st.inflight
            /\ last' = [NoOp EXCEPT !.op = "userDelete",
                                    !.fired = bindings.userDelete,
                                    !.prompts = st.prompts, !.ok = ans,
                                    !.sent = st.sent]
    /\ UNCHANGED <<user_url, obj_id, navigated, rows, errors, bindings>>

\* a click on the .delete control of the .group row i
ClickGroupDelete(i) ==
    /\ rows[i].kind = "group"
    /\ bindings.groupDelete > 0
    /\ \E ans \in [1..bindings.groupDelete -> BOOLEAN] :
         LET st == FireGroupDelete(1, bindings.groupDelete,
                       Effect(popovers, inflight, 0, 0), rows[i], ans,
                       <<user_url, obj_id>>)
         IN /\ BagCardinality(st.inflight) <= MaxInflight
            /\ popovers' = st.pops
            /\ inflight' = st.inflight
            /\ last' = [NoOp EXCEPT !.op = "groupDelete",
                                    !.fired = bindings.groupDelete,
                                    !.prompts = st.prompts, !.ok = ans,
                                    !.sent = st.sent]
    /\ UNCHANGED <<user_url, obj_id, navigated, rows, errors, bindings>>

\* lines 36-42: bind_user_perm_form binds one submit handler on every
\* .object_permissions_form that is in the document when it runs: the forms
\* of the popovers whose content has arrived
bind_user_perm_form(pops) ==
    [j \in 1..Len(pops) |->
        IF pops[j].loaded THEN [pops[j] EXCEPT !.bound = @ + 1] ELSE pops[j]]

\* lines 21, 85: the content fetched from content.url arrives and is put in
\* popover i; its form is a new element and carries no handler
ContentArrives(i) ==
    /\ ~popovers[i].loaded
    /\ popovers' = [popovers EXCEPT ![i].loaded = TRUE, ![i].bound = 0]
    /\ last' = [NoOp EXCEPT !.op = "content"]
    /\ UNCHANGED <<user_url, obj_id, navigated, rows, errors, inflight, bindings>>

\* lines 28-31, 92-95: api.onShow of popover i, once, before or after its
\* content has arrived
OnShow(i) ==
    /\ popovers[i].visible
    /\ ~popovers[i].shown
    /\ popovers' = bind_user_perm_form([popovers EXCEPT ![i].shown = TRUE])
    /\ last' = [NoOp EXCEPT !.op = "onShow"]
    /\ UNCHANGED <<user_url, obj_id, navigated, rows, errors, inflight, bindings>>

\* lines 22, 86: the close button of the popover's title hides it
ClosePopover(i) ==
    /\ popovers[i].visible
    /\ popovers' = [popovers EXCEPT ![i].visible = FALSE]
    /\ last' = [NoOp EXCEPT !.op = "close"]
    /\ UNCHANGED <<user_url, obj_id, navigated, rows, errors, inflight, bindings>>

\* lines 37-41: one run of the submit handler of the form of popover p;
\* "return false" keeps the browser from submitting the form itself
SubmitHandler(st, p) ==
    [errors |-> SubSeq(st.errors, 1, 0),
     inflight |-> st.inflight (+) One(SubmitRequest(p)),
     sent |-> st.sent + 1,
     prevented |-> TRUE]

\* jQuery runs every submit handler bound on the form, in binding order
RECURSIVE FireSubmit(_, _, _)
FireSubmit(n, st, p) ==
    IF n = 0 THEN st ELSE FireSubmit(n - 1, SubmitHandler(st, p), p)

\* the user submits the form of the visible popover i, which is there once
\* the content has arrived: the handlers bound on the form run, and the
\* browser submits the form itself (and leaves the page) unless one of them
\* returned false
SubmitForm(i) ==
    /\ popovers[i].visible
    /\ popovers[i].loaded
    /\ LET st == FireSubmit(popovers[i].bound,
                     [errors |-> errors, inflight |-> inflight, sent |-> 0,
                      prevented |-> FALSE],
                     popovers[i])
       IN /\ BagCardinality(st.inflight) <= MaxInflight
          /\ errors' = st.errors
          /\ inflight' = st.inflight
          /\ navigated' = ~st.prevented
          /\ last' = [NoOp EXCEPT !.op = "submit", !.fired = popovers[i].bound,
                                  !.sent = st.sent]
    /\ UNCHANGED <<user_url, obj_id, rows, popovers, bindings>>

\* the answer to the delete request r arrives and parses as JSON
DeleteResponse(r, code) ==
    /\ r.type = "delete"
    /\ rows' = IF r.kind = "user"
               THEN UserDeleteCallback(rows, r.id, code)
               ELSE GroupDeleteCallback(rows, r.id, code)
    /\ inflight' = inflight (-) One(r)
    /\ last' = [NoOp EXCEPT !.op = IF r.kind = "user" THEN "userDeleteResponse"
                                                        ELSE "groupDeleteResponse",
                            !.got = Got("application/json", code)]
    /\ UNCHANGED <<user_url, obj_id, navigated, popovers, errors, bindings>>

\* the answer to the form submission r arrives
SubmitResponse(r, resp) ==
    /\ r.type = "submit"
    /\ LET page == update_user_permissions(
                       [rows |-> rows, pops |-> popovers, errors |-> errors],
                       resp[1], resp[2])
       IN /\ rows' = page.rows
          /\ popovers' = page.pops
          /\ errors' = page.errors
    /\ inflight' = inflight (-) One(r)
    /\ last' = [NoOp EXCEPT !.op = "submitResponse",
                            !.got = Got(resp[1], resp[2])]
    /\ UNCHANGED <<user_url, obj_id, navigated, bindings>>

\* Mutation of OnError: the first row is removed as if the answer had come
OnErrorRemoves(page) ==
    [rows |-> SubSeq(page.rows, 2, Len(page.rows)),
     pops |-> page.pops, errors |-> page.errors]

\* what the page does when a request fails: neither $.post (lines 51-58) nor
\* ajaxSubmit (line 39) is given an error callback
OnError(page) == page

\* the request r fails in transport (no answer, an error status or, for a
\* delete, an answer that is not JSON)
RequestFails(r) ==
    /\ LET page == OnError([rows |-> rows, pops |-> popovers, errors |-> errors])
       IN /\ rows' = page.rows
          /\ popovers' = page.pops
          /\ errors' = page.errors
    /\ inflight' = inflight (-) One(r)
    /\ last' = [NoOp EXCEPT !.op = "requestFails"]
    /\ UNCHANGED <<user_url, obj_id, navigated, bindings>>

\* history of the races between a delete and a form submission.
\* armed: the identifiers of user rows whose delete was confirmed while a form
\* submission awaited its answer and no delete of that row did; gone: those of
\* them whose row a delete answer has removed.  A new form submission empties
\* both, so while an identifier is in gone every form submission that awaits
\* its answer was sent before the delete of that row was confirmed.  An
\* identifier is forgotten when no form submission awaits its answer any
\* more, and an armed one when no delete of its row does.
Track ==
    LET sent == BagToSet(inflight' (-) inflight)
        answered == BagToSet(inflight (-) inflight')
        submitted == \E r \in BagToSet(inflight) : r.type = "submit"
        deleting(x) == \E r \in BagToSet(inflight) :
                          r.type = "delete" /\ r.kind = "user"
                             /\ Concat(UserPrefix, r.id) = x
        deletingNext(x) == \E r \in BagToSet(inflight') :
                              r.type = "delete" /\ r.kind = "user"
                                 /\ Concat(UserPrefix, r.id) = x
        new == {x \in {Concat(UserPrefix, r.id) : r \in sent} : ~deleting(x)}
        removed == {Concat(UserPrefix, r.id) : r \in answered}
        h == CASE last'.op = "submit" -> [armed |-> {}, gone |-> {}]
               [] last'.op = "userDelete" /\ submitted ->
                     [hist EXCEPT !.armed = @ \cup new]
               [] last'.op = "userDeleteResponse" /\ rows' # rows ->
                     [hist EXCEPT !.gone = @ \cup (removed \cap hist.armed)]
               [] OTHER -> hist
    IN hist' =
         IF \E r \in BagToSet(inflight') : r.type = "submit"
         THEN [armed |-> {x \in h.armed : deletingNext(x)}, gone |-> h.gone]
         ELSE [armed |-> {}, gone |-> {}]

\* a step of the page, as long as the browser shows it
Quiet == ~navigated /\ UNCHANGED hist

Next ==
    \/ Quiet /\ Initialize
    \/ Quiet /\ ClickAddUser
    \/ Quiet /\ \E i \in 1..Len(rows) : ClickPermissions(i)
    \/ Quiet /\ \E i \in 1..Len(rows) : ClickUserDelete(i)
    \/ Quiet /\ \E i \in 1..Len(rows) : ClickGroupDelete(i)
    \/ Quiet /\ \E i \in 1..Len(popovers) : ContentArrives(i)
    \/ Quiet /\ \E i \in 1..Len(popovers) : OnShow(i)
    \/ Quiet /\ \E i \in 1..Len(popovers) : ClosePopover(i)
    \/ Quiet /\ \E i \in 1..Len(popovers) : SubmitForm(i)
    \/ Quiet /\ \E r \in BagToSet(inflight), code \in DeletePayloads :
                   DeleteResponse(r, code)
    \/ Quiet /\ \E r \in BagToSet(inflight), resp \in FormResponses :
                   SubmitResponse(r, resp)
    \/ Quiet /\ \E r \in BagToSet(inflight) : RequestFails(r)

Spec == Init /\ [][Next]_vars

\* the same steps, with the history of races kept
NextRace ==
    \/ ~navigated /\ Initialize /\ Track
    \/ ~navigated /\ ClickAddUser /\ Track
    \/ ~navigated /\ (\E i \in 1..Len(rows) : ClickPermissions(i)) /\ Track
    \/ ~navigated /\ (\E i \in 1..Len(rows) : ClickUserDelete(i)) /\ Track
    \/ ~navigated /\ (\E i \in 1..Len(rows) : ClickGroupDelete(i)) /\ Track
    \/ ~navigated /\ (\E i \in 1..Len(popovers) : ContentArrives(i)) /\ Track
    \/ ~navigated /\ (\E i \in 1..Len(popovers) : OnShow(i)) /\ Track
    \/ ~navigated /\ (\E i \in 1..Len(popovers) : ClosePopover(i)) /\ Track
    \/ ~navigated /\ (\E i \in 1..Len(popovers) : SubmitForm(i)) /\ Track
    \/ ~navigated /\ (\E r \in BagToSet(inflight), code \in DeletePayloads :
                         DeleteResponse(r, code)) /\ Track
    \/ ~navigated /\ (\E r \in BagToSet(inflight), resp \in FormResponses :
                         SubmitResponse(r, resp)) /\ Track
    \/ ~navigated /\ (\E r \in BagToSet(inflight) : RequestFails(r)) /\ Track

SpecRace == Init /\ [][NextRace]_vars

----------------------------------------------------------------------------
(* Properties *)

\* the popovers are all hidden and none was added or removed by the step
AllHidden ==
    /\ Len(popovers') = Len(popovers)
    /\ \A i \in 1..Len(popovers') : ~popovers'[i].visible

\* the entity ids a row identifier may carry
EntityIds == UserIds \cup GroupIds

\* C1: after every operation at most one popover exists: a click that opens a
\* popover (add-user control, .permissions link) destroys the previous one.
C1_AtMostOnePopover == Len(popovers) <= 1

\* C1 witness: the add-user popover is the only popover although a form of
\* an edit-permissions popover was submitted before and is still unanswered.
C1_Witness ==
    /\ last.op = "addUser"
    /\ Len(popovers) = 1
    /\ popovers[1].kind = "add"
    /\ \E r \in BagToSet(inflight) : r.type = "submit" /\ r.kind = "perm"

\* C2: the answer to a confirmed delete of user row user_<n> removes exactly
\* the row with identifier user_<n> when the payload is a string, and leaves
\* the row list as it is when the payload is anything else.
C2_UserDeleteResponse ==
    [][\A r \in BagToSet(inflight), code \in DeletePayloads :
          (last'.op = "userDeleteResponse" /\ r.kind = "user"
              /\ DeleteResponse(r, code)) =>
             IF code.t = "string"
             THEN rows' = SelectSeq(rows, LAMBDA x : x.id # UserPrefix \o r.data.user)
             ELSE rows' = rows]_vars

\* C2 witness: a string answer to a user delete has removed user_1, the group
\* row is still there.
C2_Witness ==
    /\ last.op = "userDeleteResponse"
    /\ last.got = <<"application/json", "string">>
    /\ rows = <<Row("group", <<"1", "3">>, 0)>>

\* C3: a JSON answer to a form whose body is the string s hides the popover
\* and removes the row with identifier s from the user list; the other rows
\* and the error region stay as they are.
C3_JsonString ==
    [][\A r \in BagToSet(inflight), s \in RowIds :
          (last'.op = "submitResponse"
              /\ SubmitResponse(r, <<"application/json", JsonString(s)>>)) =>
             /\ rows' = SelectSeq(rows, LAMBDA x : x.id # s)
             /\ errors' = errors
             /\ AllHidden]_vars

\* C3 witness: such an answer has removed a row while a popover was open and
\* the error region held messages.
C3_Witness ==
    /\ last.op = "submitResponse"
    /\ last.got = <<"application/json", "string">>
    /\ Len(rows) = 1
    /\ Len(popovers) = 1
    /\ popovers[1].shown
    /\ Len(errors) > 0

\* C4: a JSON answer to a form whose body is an object appends one item per
\* key, carrying that key's message, to the error region; the popovers and
\* the rows stay as they are.
C4_JsonObject ==
    [][\A r \in BagToSet(inflight), o \in ErrorObjects :
          (last'.op = "submitResponse"
              /\ SubmitResponse(r, <<"application/json", JsonObject(o)>>)) =>
             /\ Len(errors') = Len(errors) + Len(o)
             /\ \A j \in 1..Len(errors) : errors'[j] = errors[j]
             /\ \A j \in 1..Len(o) : errors'[Len(errors) + j] = o[j][2]
             /\ popovers' = popovers
             /\ rows' = rows]_vars

\* C4 witness: the messages of an object answer are shown in the open popover.
C4_Witness ==
    /\ last.op = "submitResponse"
    /\ last.got = <<"application/json", "object">>
    /\ errors = <<"required", "invalid">>
    /\ Len(popovers) = 1
    /\ popovers[1].visible

\* C5: an html answer whose identifier is that of a row of the user list
\* hides the popover and puts the fragment in the place of that row: the list
\* keeps its length and every other row its place.
C5_ReplaceInPlace ==
    [][\A r \in BagToSet(inflight), f \in Fragments :
          (last'.op = "submitResponse"
              /\ SubmitResponse(r, <<"text/html", f>>)
              /\ \E i \in 1..Len(rows) : rows[i].id = f.id) =>
             /\ Len(rows') = Len(rows)
             /\ \A i \in 1..Len(rows) :
                   rows'[i] = IF rows[i].id = f.id THEN f ELSE rows[i]
             /\ AllHidden]_vars

\* C5 witness: the first of two rows was replaced where it stood.
C5_Witness ==
    /\ last.op = "submitResponse"
    /\ last.got = <<"text/html", "html">>
    /\ rows = <<Row("user", <<"1">>, 1), Row("group", <<"1", "3">>, 0)>>

\* C6: an html answer whose identifier is that of no row of the user list
\* hides the popover and adds the fragment as the last row; the rows there
\* before keep their content and order.
C6_AppendNew ==
    [][\A r \in BagToSet(inflight), f \in Fragments :
          (last'.op = "submitResponse"
              /\ SubmitResponse(r, <<"text/html", f>>)
              /\ \A i \in 1..Len(rows) : rows[i].id # f.id) =>
             /\ Len(rows') = Len(rows) + 1
             /\ rows'[Len(rows')] = f
             /\ \A i \in 1..Len(rows) : rows'[i] = rows[i]
             /\ AllHidden]_vars

\* C6 witness: the row of a new user was added after the two rows of the page.
C6_Witness ==
    /\ last.op = "submitResponse"
    /\ last.got = <<"text/html", "html">>
    /\ rows = <<Row("user", <<"1">>, 0), Row("group", <<"1", "3">>, 0),
                Row("user", <<"7">>, 1)>>

\* C7: a confirmed delete click in the row group_<n> sends one request to
\* user_url with the parameters {group: <n>, obj: obj_id}, and one in the row
\* user_<n> sends {user: <n>, obj: obj_id}.
C7_DeleteParameters ==
    [][\A i \in 1..Len(rows) :
          /\ (last'.op = "groupDelete" /\ inflight' # inflight
                 /\ ClickGroupDelete(i)) =>
                \E n \in EntityIds :
                   /\ rows[i].id = GroupPrefix \o n
                   /\ \E q \in BagToSet(inflight') :
                         /\ inflight' = inflight (+) SetToBag({q})
                         /\ q.url = user_url
                         /\ q.data = [group |-> n, obj |-> obj_id]
          /\ (last'.op = "userDelete" /\ inflight' # inflight
                 /\ ClickUserDelete(i)) =>
                \E n \in EntityIds :
                   /\ rows[i].id = UserPrefix \o n
                   /\ \E q \in BagToSet(inflight') :
                         /\ inflight' = inflight (+) SetToBag({q})
                         /\ q.url = user_url
                         /\ q.data = [user |-> n, obj |-> obj_id]]_vars

\* C7 witness: the delete of group_13 was confirmed and the request with
\* group = 13 awaits its answer.
C7_Witness ==
    /\ last.op = "groupDelete"
    /\ last.sent = 1
    /\ \E q \in BagToSet(inflight) :
          q.type = "delete" /\ q.data = [group |-> <<"1", "3">>, obj |-> obj_id]

\* C8: however often document.ready has run, every control carries one
\* handler, so a click runs one handler: one popover is opened, or one
\* confirm() prompt is shown and at most one request is sent.
C8_OneHandlerPerClick ==
    /\ bindings = [addUser |-> 1, userDelete |-> 1, groupDelete |-> 1,
                   permissions |-> 1]
    /\ last.op \in {"addUser", "permissions"} =>
          last.fired = 1 /\ Len(popovers) = 1
    /\ last.op \in {"userDelete", "groupDelete"} =>
          last.fired = 1 /\ last.prompts = 1 /\ last.sent <= 1

\* C8 witness: document.ready has just run again (the first run made the
\* initial state) and every control carries one handler.
C8_Witness ==
    /\ last.op = "ready"
    /\ bindings.addUser = 1
    /\ bindings.userDelete = 1
    /\ bindings.groupDelete = 1
    /\ bindings.permissions = 1

\* C9 (as claimed): after a confirmed group delete no popover is open, as
\* after a confirmed user delete.
C9_GroupDeleteDestroysPopover ==
    (last.op = "groupDelete" /\ last.sent = 1) => Len(popovers) = 0

\* C10: a request that fails in transport leaves the rows, the error region
\* and the popovers as they are.
C10_FailureLeavesPage ==
    [][\A r \in BagToSet(inflight) :
          (last'.op = "requestFails" /\ RequestFails(r)) =>
             rows' = rows /\ errors' = errors /\ popovers' = popovers]_vars

\* C10 witness: a request has failed and the page shows its two rows, an
\* open popover and no message.
C10_Witness ==
    /\ last.op = "requestFails"
    /\ rows = InitRows
    /\ errors = <<>>
    /\ Len(popovers) = 1
    /\ popovers[1].visible


\* the identifiers of the rows of a list
IdsOf(rs) == {rs[i].id : i \in 1..Len(rs)}

\* C11: a delete click whose confirm() prompt is declined sends no request,
\* destroys no popover and leaves the rows as they are; a delete click sends
\* a request only when the prompt was confirmed.
C11_DeclinedDeleteNoEffect ==
    [][last'.op \in {"userDelete", "groupDelete"} =>
          /\ (\A k \in DOMAIN last'.ok : ~last'.ok[k]) =>
                /\ inflight' = inflight
                /\ popovers' = popovers
                /\ rows' = rows
                /\ errors' = errors
          /\ inflight' # inflight => \E k \in DOMAIN last'.ok : last'.ok[k]]_vars

\* C11 witness: the delete of the group row was declined; the popover that
\* was open is still open and no request awaits its answer.
C11_Witness ==
    /\ last.op = "groupDelete"
    /\ last.ok = <<FALSE>>
    /\ Len(popovers) = 1
    /\ popovers[1].visible
    /\ inflight = EmptyBag
    /\ rows = InitRows

\* C12 (as claimed): every submission of a popover's form empties the error
\* region before it sends its request, so the region is empty when the
\* request has been sent; the browser does not leave the page, and the
\* submission sends the one request whose success callback is the
\* reconciliation.  A form whose content arrived after api.onShow ran carries
\* no handler: its submission sends no request and the browser leaves the
\* page.
C12_SubmitClearsThenSends ==
    last.op = "submit" =>
        /\ errors = <<>>
        /\ ~navigated
        /\ last.sent = 1
        /\ \E r \in BagToSet(inflight) : r.type = "submit"

\* C13: a confirmed delete click on a row sends a request for that row also
\* when a delete request for the same row awaits its answer: the requests for
\* the row that await their answer become one more.
C13_NoAtMostOnce ==
    [][\A i \in 1..Len(rows) :
          /\ (last'.op = "userDelete" /\ last'.ok = <<TRUE>>
                 /\ ClickUserDelete(i)) =>
                \E q \in BagToSet(inflight') :
                   /\ q.type = "delete" /\ q.kind = "user"
                   /\ UserPrefix \o q.data.user = rows[i].id
                   /\ CopiesIn(q, inflight') = CopiesIn(q, inflight) + 1
          /\ (last'.op = "groupDelete" /\ last'.ok = <<TRUE>>
                 /\ ClickGroupDelete(i)) =>
                \E q \in BagToSet(inflight') :
                   /\ q.type = "delete" /\ q.kind = "group"
                   /\ GroupPrefix \o q.data.group = rows[i].id
                   /\ CopiesIn(q, inflight') = CopiesIn(q, inflight) + 1]_vars

\* C13 witness: two delete requests for the row user_1 await their answer.
C13_Witness ==
    /\ last.op = "userDelete"
    /\ \E q \in BagToSet(inflight) :
          /\ q.type = "delete"
          /\ q.data = [user |-> <<"1">>, obj |-> obj_id]
          /\ CopiesIn(q, inflight) = 2
    /\ UserPrefix \o <<"1">> \in IdsOf(rows)

\* C14: opening a popover sends no request and leaves the rows, user_url and
\* obj_id as they are; the content of the add-user popover is fetched from
\* user_url, that of an edit-permissions popover from the href of the link.
C14_OpenIsReadOnly ==
    [][/\ last'.op \in {"addUser", "permissions"} =>
             /\ inflight' = inflight
             /\ rows' = rows
             /\ user_url' = user_url
             /\ obj_id' = obj_id
             /\ Len(popovers') = 1
       /\ last'.op = "addUser" => popovers'[1].url = user_url
       /\ \A i \in 1..Len(rows) :
             (last'.op = "permissions" /\ ClickPermissions(i)) =>
                popovers'[1].url = <<"href">> \o rows[i].id]_vars

\* C14 witness: the edit-permissions popover of the group row is open, its
\* content comes from the href of that row, and nothing else has changed.
C14_Witness ==
    /\ last.op = "permissions"
    /\ Len(popovers) = 1
    /\ popovers[1].url = <<"href">> \o GroupPrefix \o <<"1", "3">>
    /\ inflight = EmptyBag
    /\ rows = InitRows

\* C15: the identifiers of the rows of the user list, distinct when the page
\* is loaded, stay pairwise distinct.
C15_DistinctIds ==
    \A i, j \in 1..Len(rows) : i # j => rows[i].id # rows[j].id

\* C15 witness: one html answer has replaced a row and another has added a
\* row; the three identifiers are distinct.
C15_Witness ==
    /\ last.op = "submitResponse"
    /\ last.got = <<"text/html", "html">>
    /\ rows = <<Row("user", <<"1">>, 1), Row("group", <<"1", "3">>, 0),
                Row("user", <<"7">>, 1)>>

\* C16 (as claimed): a user row that a delete answer has removed is not put
\* back by the answer to a form submission sent before that delete.
C16_NoResurrection ==
    [][\A x \in hist.gone : x \notin IdsOf(rows) => x \notin IdsOf(rows')]_vars

\* C17 (as claimed): the answer to a form submission does not hide a popover
\* other than the one the form was in (here: one of the other kind, opened
\* while the submission awaited its answer).
C17_HidesOnlyOrigin ==
    [][\A r \in BagToSet(inflight), resp \in FormResponses :
          (last'.op = "submitResponse" /\ Len(popovers) = 1
              /\ popovers[1].kind # r.kind /\ SubmitResponse(r, resp)) =>
             popovers' = popovers]_vars

\* C18 (as claimed): the error region shows the messages of at most one
\* answer.
C18_OneResponseErrors ==
    \/ errors = <<>>
    \/ \E o \in ErrorObjects : errors = [j \in 1..Len(o) |-> o[j][2]]

\* C19 (as claimed): the form of a popover carries at most one submit
\* handler, so one submission of the form runs one handler and sends exactly
\* one request.  No form carries two handlers, but one whose content arrived
\* after api.onShow ran carries none, and its submission sends no request.
C19_OneSubmitHandler ==
    /\ \A i \in 1..Len(popovers) : popovers[i].bound <= 1
    /\ last.op = "submit" => last.fired = 1 /\ last.sent = 1

====
